---- MODULE Spec2Model ----
(***************************************************************************)
(* The buffer state machine of the lesynth additive-synthesis engine:      *)
(* SharedParams (src/src/engine/shared_params.rs) and the background       *)
(* recomputation of the per-key buffers.                                   *)
(*                                                                         *)
(* Vec<T> is a function over 0..len-1 (Rust indexes from 0); Option<T> is  *)
(* a sequence of length at most one: None is <<>>, Some(x) is <<x>>.       *)
(***************************************************************************)
EXTENDS Integers, Sequences, FiniteSets, TLC

\* ---------------------------------------------------------------- constants

\* constants.rs: pub const NUM_KEYS: usize = 88
NUM_KEYS == 88

\* shared_params.rs, SharedParams::new: fade_duration: 128
FADE_DURATION == 128

\* constants.rs: pub const NUM_HARMONICS: usize = 64
NUM_HARMONICS == 64

\* constants.rs: pub const SAMPLE_RATE: f64 = 44100.0
SAMPLE_RATE == 44100

\* constants.rs: pub const NYQUIST_FREQUENCY: f64 = SAMPLE_RATE / 2.0
NYQUIST_FREQUENCY == SAMPLE_RATE \div 2

\* ------------------------------------------------------------------- bounds

\* The scheduler's claims and the keyed calls are exercised on the keys
\* 0..MaxLowKey and on the last key NUM_KEYS-1; mark_all_buffers_dirty and
\* the constructor always act on all NUM_KEYS entries.
MaxLowKey == 0

\* How far past the last valid index a key argument may lie.
MaxKeyOverrun == 1

\* The engine is constructed by SharedParams::new(MaxHarmonics, MaxBuckets).
MaxHarmonics == 1
MaxBuckets == 1

\* The size of the background worker pool.
NumWorkers == 2

\* The number of GUI/host operations after which edits stop (LiveSpec only).
MaxEdits == 2

\* The quotients n / fundamental_freq are searched for in 0..MaxQuotient.
MaxQuotient == 1700

\* The longest sample buffer of a voice.
MaxBufLen == 2

\* The largest sample cursor and fade position of a voice.
MaxPos == 2

\* --------------------------------------------------------------------- state

VARIABLES
  amplitude_data,          \* Vec<Vec<f32>>: num_harmonics rows of buckets values
  phase_data,              \* Vec<Vec<f32>>
  piano_periods,           \* Vec<u32>, NUM_KEYS entries
  harmonic_ampl_enabled,   \* Vec<bool>
  harmonic_phase_enabled,  \* Vec<bool>
  voices,                  \* Vec<Option<Voice>>, NUM_KEYS slots
  fade_duration,           \* usize
  key_buffers,             \* Vec<Option<Vec<f32>>>, NUM_KEYS slots
  buffer_states,           \* Vec<BufferState>, NUM_KEYS entries
  computation_cancel,      \* AtomicBool
  panicked,                \* an index out of bounds has panicked
  pc,                      \* per GUI/host thread: its position in its code
  held,                    \* per mutex: the thread that holds it, or "free"
  local,                   \* per GUI/host thread: its local variables
  wpc,                     \* per worker: "idle", "claimed", "built"
  wkey,                    \* per worker: the key it has claimed
  wbuf,                    \* per worker: the buffer it builds off to the side
  wdirtied,                \* history: its key was dirtied after it built its buffer
  edits_left,              \* LiveSpec: GUI/host operations still to come
  last                     \* history: the operation that made the last step

tableVars  == <<amplitude_data, phase_data, piano_periods>>
enableVars == <<harmonic_ampl_enabled, harmonic_phase_enabled>>
voiceVars  == <<voices, fade_duration>>
bufferVars == <<key_buffers, buffer_states, computation_cancel>>
workerVars == <<wpc, wkey, wbuf, wdirtied>>
threadVars == <<pc, held, local>>
vars == <<tableVars, enableVars, voiceVars, bufferVars, workerVars,
          threadVars, panicked, edits_left, last>>

\* ---------------------------------------------------------------- data types

\* enum BufferState { Clean, Dirty, Computing }
BufferState == {"Clean", "Dirty", "Computing"}

None == <<>>
Some(x) == <<x>>

Keys == 0..(NUM_KEYS - 1)

\* The keys the scheduler visits and the keyed calls name.
ModelKeys == (0..MaxLowKey) \cup {NUM_KEYS - 1}

\* The key arguments of mark_buffer_dirty: valid ones and ones past the end.
KeyArgs == ModelKeys \cup (NUM_KEYS..(NUM_KEYS + MaxKeyOverrun))

Workers == 1..NumWorkers

\* The threads of the UI/host side: the GUI thread, which runs the curve
\* controls, two threads that edit the amplitude and the phase table, and a
\* thread of the host.
Threads == {"gui", "amp", "phase", "host"}

\* The mutexes of SharedParams that the modelled threads take.
Mutexes == {"amplitude_data", "phase_data", "harmonic_ampl_enabled",
            "harmonic_phase_enabled", "buffer_states"}

\* A thread outside its code has no local variables.
NoLocals == <<>>

\* The harmonic data a buffer is synthesized from.
HarmonicData == <<amplitude_data, phase_data,
                  harmonic_ampl_enabled, harmonic_phase_enabled>>

\* The record of the last step: the operation, its key (-1: none), what the
\* operation found (pre, "-": nothing noted) and, for a worker's step,
\* whether its key was dirtied after it had built its buffer.
Last(op, key, pre, dirtied) ==
  [op |-> op, key |-> key, pre |-> pre, dirtied |-> dirtied]

\* A step of the background work that no property asks about.
Background == Last("background", -1, "-", FALSE)

\* What mark_all_buffers_dirty finds: "mixed" when Clean, Dirty and Computing
\* entries are all present and the cancellation flag is clear.
Mix ==
  IF /\ \E k \in ModelKeys : buffer_states[k] = "Clean"
     /\ \E k \in ModelKeys : buffer_states[k] = "Computing"
     /\ \E k \in Keys : buffer_states[k] = "Dirty"
     /\ ~computation_cancel
    THEN "mixed" ELSE "-"

\* ------------------------------------------------------------------ tuning
\* The f64 expressions of the tuning code, n / (27.5 * 2f64.powf(key / 12.0))
\* followed by floor() or round(), are computed here in exact arithmetic:
\*   t * 27.5 * 2^(key/12) <= n   iff   (55 * t)^12 * 2^key <= (2 * n)^12.
\* The powers exceed the 32-bit integers, so they are natural numbers written
\* as sequences of base-10000 digits, least significant digit first.

RECURSIVE Digits(_)
Digits(n) == IF n = 0 THEN <<>> ELSE <<n % 10000>> \o Digits(n \div 10000)

\* a * m + carry, for a digit sequence a and a small natural m > 0.
RECURSIVE MulSmall(_, _, _)
MulSmall(a, m, carry) ==
  IF a = <<>>
    THEN Digits(carry)
    ELSE LET t == Head(a) * m + carry
         IN  <<t % 10000>> \o MulSmall(Tail(a), m, t \div 10000)

\* a * m^n
RECURSIVE TimesPower(_, _, _)
TimesPower(a, m, n) ==
  IF n = 0 THEN a ELSE TimesPower(MulSmall(a, m, 0), m, n - 1)

\* a <= b on the digits i, i-1, .., 1 of two sequences of the same length.
RECURSIVE DigitsLe(_, _, _)
DigitsLe(a, b, i) ==
  IF i = 0 THEN TRUE
  ELSE IF a[i] # b[i] THEN a[i] < b[i]
  ELSE DigitsLe(a, b, i - 1)

BigLe(a, b) ==
  IF Len(a) # Len(b) THEN Len(a) < Len(b) ELSE DigitsLe(a, b, Len(a))

\* m^12 * 2^key * a, for m > 0
ScaledPower(m, key, a) ==
  TimesPower(TimesPower(TimesPower(TimesPower(<<1>>, m, 12),
                                   4096, key \div 12),
                        2, key % 12),
             a, 1)

\* m^12 * 2^key * a <= n^12 * b, that is m * 2^(key/12) <= n * (b/a)^(1/12).
RootLe(m, key, n, a, b) ==
  \/ m <= 0
  \/ BigLe(ScaledPower(m, key, a), ScaledPower(n, 0, b))

\* m^12 * 2^key < n^12, that is m * 2^(key/12) < n.
RootLt(m, key, n) ==
  \/ m <= 0
  \/ ~BigLe(ScaledPower(n, 0, 1), ScaledPower(m, key, 1))

\* t * fundamental_freq <= n, where fundamental_freq is 27.5 * 2^(key/12),
\* with the left side scaled by (a/b)^(1/12).
FreqTimesLe(t, key, n, a, b) == RootLe(55 * t, key, 2 * n, a, b)

\* t * fundamental_freq < n
FreqTimesLt(t, key, n) == RootLt(55 * t, key, 2 * n)

\* The largest t in lo..hi with (s * t - d) * fundamental_freq <= n, found by
\* bisection; lo satisfies the condition.
RECURSIVE LargestWith(_, _, _, _, _, _)
LargestWith(s, d, n, key, lo, hi) ==
  IF lo >= hi THEN lo
  ELSE LET mid == (lo + hi + 1) \div 2
       IN  IF FreqTimesLe(s * mid - d, key, n, 1, 1)
             THEN LargestWith(s, d, n, key, mid, hi)
             ELSE LargestWith(s, d, n, key, lo, mid - 1)

\* (n / fundamental_freq).floor(): the largest c with c * freq <= n.
FloorOfQuotient(n, key) == LargestWith(1, 0, n, key, 0, MaxQuotient)

\* (n / fundamental_freq).round(): the largest p with (2p - 1) * freq <= 2n.
RoundOfQuotient(n, key) == LargestWith(2, 1, 2 * n, key, 0, MaxQuotient)

\* The f64 evaluation of n / fundamental_freq lies within a relative distance
\* of 10^-15 of the exact quotient.  Scaling a 12th power by 1 +- 1/F64Slack
\* moves the quotient by more than that, so a floor() or round() that stays
\* the same under the scaling is the one the f64 evaluation yields.
F64Slack == 100000

\* floor() of every value that near to n / fundamental_freq is c.
FloorIsSure(n, key, c) ==
  /\ FreqTimesLe(c, key, n, F64Slack, F64Slack - 1)
  /\ ~FreqTimesLe(c + 1, key, n, F64Slack, F64Slack + 1)

\* floor() of every value that near to n / fundamental_freq is c or more.
FloorIsSurelyAtLeast(n, key, c) ==
  FreqTimesLe(c, key, n, F64Slack, F64Slack - 1)

\* round() of every value that near to n / fundamental_freq is p.
RoundIsSure(n, key, p) ==
  /\ FreqTimesLe(2 * p - 1, key, 2 * n, F64Slack, F64Slack - 1)
  /\ ~FreqTimesLe(2 * p + 1, key, 2 * n, F64Slack, F64Slack + 1)

Min(a, b) == IF a <= b THEN a ELSE b

\* max_harmonic_for_key with the out-of-range test written key > NUM_KEYS.
MaxHarmonicForKey_OffByOne(key) ==
  IF key > NUM_KEYS
    THEN 0
    ELSE Min(FloorOfQuotient(NYQUIST_FREQUENCY, key), NUM_HARMONICS)

\* max_harmonic_for_key that rounds the quotient to the nearest harmonic.
MaxHarmonicForKey_Rounds(key) ==
  IF key >= NUM_KEYS
    THEN 0
    ELSE Min(RoundOfQuotient(NYQUIST_FREQUENCY, key), NUM_HARMONICS)

\* max_harmonic_for_key(key): 0 for key >= NUM_KEYS, else
\* (NYQUIST_FREQUENCY / fundamental_freq).floor().min(NUM_HARMONICS).
MaxHarmonicForKey(key) ==
  IF key >= NUM_KEYS
    THEN 0
    ELSE Min(FloorOfQuotient(NYQUIST_FREQUENCY, key), NUM_HARMONICS)

\* The period pushed for key by a populate_piano_periods that truncates.
PianoPeriod_Truncates(key) == FloorOfQuotient(SAMPLE_RATE, key)

\* The period populate_piano_periods pushes for key:
\* (sample_rate / (27.5 * 2f64.powf(key as f64 / 12.0))).round() as u32.
PianoPeriod(key) == RoundOfQuotient(SAMPLE_RATE, key)

\* populate_piano_periods(): the periods of the keys 0..NUM_KEYS-1.
PopulatePianoPeriods == [key \in 0..(NUM_KEYS - 1) |-> PianoPeriod(key)]

\* --------------------------------------------------------------- construction

\* A constructor that takes the buffers for ready: the states start Clean.
SharedParamsNew_StartsClean(num_harmonics, buckets) ==
  [amplitude_data |-> [h \in 0..(num_harmonics - 1) |->
                         [b \in 0..(buckets - 1) |-> 0]],
   phase_data     |-> [h \in 0..(num_harmonics - 1) |->
                         [b \in 0..(buckets - 1) |-> 0]],
   voices         |-> [k \in Keys |-> None],
   piano_periods  |-> PopulatePianoPeriods,
   harmonic_ampl_enabled  |-> [h \in 0..(num_harmonics - 1) |-> TRUE],
   harmonic_phase_enabled |-> [h \in 0..(num_harmonics - 1) |-> TRUE],
   fade_duration  |-> FADE_DURATION,
   key_buffers    |-> [k \in Keys |-> None],
   buffer_states  |-> [k \in Keys |-> "Clean"],
   computation_cancel |-> FALSE]

\* A constructor whose vectors of flags have one entry per bucket.
SharedParamsNew_FlagsPerBucket(num_harmonics, buckets) ==
  [amplitude_data |-> [h \in 0..(num_harmonics - 1) |->
                         [b \in 0..(buckets - 1) |-> 0]],
   phase_data     |-> [h \in 0..(num_harmonics - 1) |->
                         [b \in 0..(buckets - 1) |-> 0]],
   voices         |-> [k \in Keys |-> None],
   piano_periods  |-> PopulatePianoPeriods,
   harmonic_ampl_enabled  |-> [h \in 0..(buckets - 1) |-> TRUE],
   harmonic_phase_enabled |-> [h \in 0..(buckets - 1) |-> TRUE],
   fade_duration  |-> FADE_DURATION,
   key_buffers    |-> [k \in Keys |-> None],
   buffer_states  |-> [k \in Keys |-> "Dirty"],
   computation_cancel |-> FALSE]

\* SharedParams::new(num_harmonics, buckets)
SharedParamsNew(num_harmonics, buckets) ==
  [amplitude_data |-> [h \in 0..(num_harmonics - 1) |->
                         [b \in 0..(buckets - 1) |-> 0]],
   phase_data     |-> [h \in 0..(num_harmonics - 1) |->
                         [b \in 0..(buckets - 1) |-> 0]],
   voices         |-> [k \in Keys |-> None],
   piano_periods  |-> PopulatePianoPeriods,
   harmonic_ampl_enabled  |-> [h \in 0..(num_harmonics - 1) |-> TRUE],
   harmonic_phase_enabled |-> [h \in 0..(num_harmonics - 1) |-> TRUE],
   fade_duration  |-> FADE_DURATION,
   key_buffers    |-> [k \in Keys |-> None],
   buffer_states  |-> [k \in Keys |-> "Dirty"],
   computation_cancel |-> FALSE]

InitWith(p) ==
  /\ amplitude_data = p.amplitude_data
  /\ phase_data = p.phase_data
  /\ harmonic_ampl_enabled = p.harmonic_ampl_enabled
  /\ harmonic_phase_enabled = p.harmonic_phase_enabled
  /\ voices = p.voices
  /\ piano_periods = p.piano_periods
  /\ fade_duration = p.fade_duration
  /\ key_buffers = p.key_buffers
  /\ buffer_states = p.buffer_states
  /\ computation_cancel = p.computation_cancel
  /\ panicked = FALSE
  /\ pc = [t \in Threads |-> "idle"]
  /\ held = [m \in Mutexes |-> "free"]
  /\ local = [t \in Threads |-> NoLocals]
  /\ wpc = [w \in Workers |-> "idle"]
  /\ wkey = [w \in Workers |-> 0]
  /\ wbuf = [w \in Workers |-> None]
  /\ wdirtied = [w \in Workers |-> FALSE]
  /\ last = Last("new", -1, "-", FALSE)

\* The engine right after SharedParams::new(MaxHarmonics, MaxBuckets).
Init ==
  /\ InitWith(SharedParamsNew(MaxHarmonics, MaxBuckets))
  /\ edits_left = MaxEdits

\* ------------------------------------------------- SharedParams: dirty marking

\* mark_all_buffers_dirty that tests the entries for Clean instead of for
\* not Dirty, and so passes over the Computing ones.
MarkAllBuffersDirty_OnlyClean ==
  /\ computation_cancel' = TRUE
  /\ buffer_states' = [k \in DOMAIN buffer_states |->
                         IF buffer_states[k] = "Clean" THEN "Dirty"
                                                       ELSE buffer_states[k]]
  /\ wdirtied' = [w \in Workers |-> wdirtied[w] \/ wpc[w] = "built"]
  /\ UNCHANGED <<key_buffers, panicked>>

\* mark_all_buffers_dirty(&self): store true into computation_cancel, then,
\* under the buffer_states lock, set every entry that is not Dirty to Dirty.
\* The history wdirtied notes the workers whose buffer was built before.
MarkAllBuffersDirty ==
  /\ computation_cancel' = TRUE
  /\ buffer_states' = [k \in DOMAIN buffer_states |->
                         IF buffer_states[k] # "Dirty" THEN "Dirty"
                                                       ELSE buffer_states[k]]
  /\ wdirtied' = [w \in Workers |-> wdirtied[w] \/ wpc[w] = "built"]
  /\ UNCHANGED <<key_buffers, panicked>>

\* mark_buffer_dirty with the bounds test written key <= NUM_KEYS.
MarkBufferDirty_OffByOne(key) ==
  IF key <= NUM_KEYS
    THEN IF key \in DOMAIN buffer_states
           THEN /\ buffer_states' =
                     [buffer_states EXCEPT ![key] =
                        IF @ # "Dirty" THEN "Dirty" ELSE @]
                /\ wdirtied' = [w \in Workers |->
                     wdirtied[w] \/ (wpc[w] = "built" /\ wkey[w] = key)]
                /\ UNCHANGED <<key_buffers, computation_cancel, panicked>>
           ELSE /\ panicked' = TRUE
                /\ UNCHANGED <<bufferVars, wdirtied>>
    ELSE UNCHANGED <<bufferVars, wdirtied, panicked>>

\* mark_buffer_dirty that tests the entry for Clean instead of for not Dirty,
\* and so leaves a Computing entry as it is.
MarkBufferDirty_OnlyClean(key) ==
  IF key < NUM_KEYS
    THEN IF key \in DOMAIN buffer_states
           THEN /\ buffer_states' =
                     [buffer_states EXCEPT ![key] =
                        IF @ = "Clean" THEN "Dirty" ELSE @]
                /\ wdirtied' = [w \in Workers |->
                     wdirtied[w] \/ (wpc[w] = "built" /\ wkey[w] = key)]
                /\ UNCHANGED <<key_buffers, computation_cancel, panicked>>
           ELSE /\ panicked' = TRUE
                /\ UNCHANGED <<bufferVars, wdirtied>>
    ELSE UNCHANGED <<bufferVars, wdirtied, panicked>>

\* mark_buffer_dirty that also drops the key's buffer when it dirties it.
MarkBufferDirty_DropsBuffer(key) ==
  IF key < NUM_KEYS
    THEN IF key \in DOMAIN buffer_states
           THEN /\ buffer_states' =
                     [buffer_states EXCEPT ![key] =
                        IF @ # "Dirty" THEN "Dirty" ELSE @]
                /\ key_buffers' = [key_buffers EXCEPT ![key] = None]
                /\ wdirtied' = [w \in Workers |->
                     wdirtied[w] \/ (wpc[w] = "built" /\ wkey[w] = key)]
                /\ UNCHANGED <<computation_cancel, panicked>>
           ELSE /\ panicked' = TRUE
                /\ UNCHANGED <<bufferVars, wdirtied>>
    ELSE UNCHANGED <<bufferVars, wdirtied, panicked>>

\* mark_buffer_dirty that writes the wrong variant, Computing, into the entry.
MarkBufferDirty_WritesComputing(key) ==
  IF key < NUM_KEYS
    THEN IF key \in DOMAIN buffer_states
           THEN /\ buffer_states' =
                     [buffer_states EXCEPT ![key] =
                        IF @ # "Dirty" THEN "Computing" ELSE @]
                /\ wdirtied' = [w \in Workers |->
                     wdirtied[w] \/ (wpc[w] = "built" /\ wkey[w] = key)]
                /\ UNCHANGED <<key_buffers, computation_cancel, panicked>>
           ELSE /\ panicked' = TRUE
                /\ UNCHANGED <<bufferVars, wdirtied>>
    ELSE UNCHANGED <<bufferVars, wdirtied, panicked>>

\* mark_buffer_dirty that writes the wrong variant, Clean, into the entry.
MarkBufferDirty_WritesClean(key) ==
  IF key < NUM_KEYS
    THEN IF key \in DOMAIN buffer_states
           THEN /\ buffer_states' =
                     [buffer_states EXCEPT ![key] =
                        IF @ # "Dirty" THEN "Dirty" ELSE "Clean"]
                /\ wdirtied' = [w \in Workers |->
                     wdirtied[w] \/ (wpc[w] = "built" /\ wkey[w] = key)]
                /\ UNCHANGED <<key_buffers, computation_cancel, panicked>>
           ELSE /\ panicked' = TRUE
                /\ UNCHANGED <<bufferVars, wdirtied>>
    ELSE UNCHANGED <<bufferVars, wdirtied, panicked>>

\* A mark_buffer_dirty that dirties every key, not only its own.
MarkBufferDirty_DirtiesAll(key) ==
  IF key < NUM_KEYS
    THEN IF key \in DOMAIN buffer_states
           THEN /\ buffer_states' = [k \in DOMAIN buffer_states |-> "Dirty"]
                /\ wdirtied' = [w \in Workers |->
                     wdirtied[w] \/ wpc[w] = "built"]
                /\ UNCHANGED <<key_buffers, computation_cancel, panicked>>
           ELSE /\ panicked' = TRUE
                /\ UNCHANGED <<bufferVars, wdirtied>>
    ELSE UNCHANGED <<bufferVars, wdirtied, panicked>>

\* mark_buffer_dirty(&self, key): if key < NUM_KEYS, under the buffer_states
\* lock, set buffer_states[key] to Dirty.  Indexing outside the vector panics.
MarkBufferDirty(key) ==
  IF key < NUM_KEYS
    THEN IF key \in DOMAIN buffer_states
           THEN /\ buffer_states' =
                     [buffer_states EXCEPT ![key] =
                        IF @ # "Dirty" THEN "Dirty" ELSE @]
                /\ wdirtied' = [w \in Workers |->
                     wdirtied[w] \/ (wpc[w] = "built" /\ wkey[w] = key)]
                /\ UNCHANGED <<key_buffers, computation_cancel, panicked>>
           ELSE /\ panicked' = TRUE
                /\ UNCHANGED <<bufferVars, wdirtied>>
    ELSE UNCHANGED <<bufferVars, wdirtied, panicked>>

\* A call of mark_all_buffers_dirty() by a UI/host collaborator.
CallMarkAllBuffersDirty ==
  /\ MarkAllBuffersDirty
  /\ last' = Last("mark_all_buffers_dirty", -1, Mix, FALSE)
  /\ UNCHANGED <<tableVars, enableVars, voiceVars, threadVars, wpc, wkey, wbuf>>

\* A call of mark_buffer_dirty(key) by a UI/host collaborator.
CallMarkBufferDirty(key) ==
  /\ MarkBufferDirty(key)
  /\ last' = Last("mark_buffer_dirty", key,
                  IF key \in DOMAIN buffer_states THEN buffer_states[key]
                                                  ELSE "-",
                  FALSE)
  /\ UNCHANGED <<tableVars, enableVars, voiceVars, threadVars, wpc, wkey, wbuf>>

\* One dirtying edit of the UI/host side.
Edit ==
  \/ CallMarkAllBuffersDirty
  \/ \E key \in KeyArgs : CallMarkBufferDirty(key)

\* --------------------------------------- background recomputation (workers)
\* The scheduler and the workers are the engine's side of the buffer state
\* machine (spec.md, sections 3, 4.2, 4.3, 5 and 7).

\* The worker w is done with its key and idle again.
Stop(w) ==
  /\ wpc' = [wpc EXCEPT ![w] = "idle"]
  /\ wkey' = [wkey EXCEPT ![w] = 0]
  /\ wbuf' = [wbuf EXCEPT ![w] = None]
  /\ wdirtied' = [wdirtied EXCEPT ![w] = FALSE]

\* A fresh computation pass begins, which clears the cancellation flag.  A
\* pass is fresh once the workers of the pass before have all stopped.
BeginPass ==
  /\ computation_cancel
  /\ \A w \in Workers : wpc[w] = "idle"
  /\ computation_cancel' = FALSE
  /\ last' = Background
  /\ UNCHANGED <<tableVars, enableVars, voiceVars, threadVars, key_buffers, buffer_states,
                 workerVars, panicked, edits_left>>

\* Dirty -> Computing: the scheduler hands key to the idle worker w, which
\* has polled the cancellation flag and found it clear.
Claim(w, key) ==
  /\ wpc[w] = "idle"
  /\ ~computation_cancel
  /\ buffer_states[key] = "Dirty"
  /\ buffer_states' = [buffer_states EXCEPT ![key] = "Computing"]
  /\ wpc' = [wpc EXCEPT ![w] = "claimed"]
  /\ wkey' = [wkey EXCEPT ![w] = key]
  /\ wdirtied' = [wdirtied EXCEPT ![w] = FALSE]
  /\ last' = Background
  /\ UNCHANGED <<tableVars, enableVars, voiceVars, threadVars, key_buffers,
                 computation_cancel, wbuf, panicked, edits_left>>

\* The worker reads the harmonic data and builds the whole new buffer off to
\* the side; until then it holds partial work only.
Synthesize(w) ==
  /\ wpc[w] = "claimed"
  /\ wbuf' = [wbuf EXCEPT ![w] =
                Some([key |-> wkey[w], from |-> HarmonicData])]
  /\ wpc' = [wpc EXCEPT ![w] = "built"]
  /\ last' = Background
  /\ UNCHANGED <<tableVars, enableVars, voiceVars, threadVars, bufferVars, wkey, wdirtied,
                 panicked, edits_left>>

\* A cancelled worker that stores what it has built all the same.
Abort_StoresResult(w) ==
  /\ wpc[w] # "idle"
  /\ computation_cancel
  /\ key_buffers' = [key_buffers EXCEPT ![wkey[w]] = wbuf[w]]
  /\ buffer_states' = [buffer_states EXCEPT ![wkey[w]] = "Clean"]
  /\ Stop(w)
  /\ last' = Last("abort", wkey[w], "-", wdirtied[w])
  /\ UNCHANGED <<tableVars, enableVars, voiceVars, threadVars, computation_cancel,
                 panicked, edits_left>>

\* Computing -> Dirty, cancelled: the worker polls the cancellation flag,
\* finds it set, discards what it has built and leaves the key Dirty.
Abort(w) ==
  /\ wpc[w] # "idle"
  /\ computation_cancel
  /\ buffer_states' = [buffer_states EXCEPT ![wkey[w]] = "Dirty"]
  /\ Stop(w)
  /\ last' = Last("abort", wkey[w], "-", wdirtied[w])
  /\ UNCHANGED <<tableVars, enableVars, voiceVars, threadVars, key_buffers,
                 computation_cancel, panicked, edits_left>>

\* Computing -> Clean, success: with the flag clear and the key still
\* Computing the complete buffer is swapped in, in one step with the state.
Publish(w) ==
  /\ wpc[w] = "built"
  /\ ~computation_cancel
  /\ buffer_states[wkey[w]] = "Computing"
  /\ key_buffers' = [key_buffers EXCEPT ![wkey[w]] = wbuf[w]]
  /\ buffer_states' = [buffer_states EXCEPT ![wkey[w]] = "Clean"]
  /\ Stop(w)
  /\ last' = Last("publish", wkey[w], "-", wdirtied[w])
  /\ UNCHANGED <<tableVars, enableVars, voiceVars, threadVars, computation_cancel,
                 panicked, edits_left>>

\* Superseded: the key is no longer Computing when the worker is done, so the
\* result is discarded and the state is left as it is.
Discard(w) ==
  /\ wpc[w] = "built"
  /\ ~computation_cancel
  /\ buffer_states[wkey[w]] # "Computing"
  /\ Stop(w)
  /\ last' = Background
  /\ UNCHANGED <<tableVars, enableVars, voiceVars, threadVars, bufferVars, panicked,
                 edits_left>>

WorkerStep(w) ==
  \/ \E key \in ModelKeys : Claim(w, key)
  \/ Synthesize(w)
  \/ Abort(w)
  \/ Publish(w)
  \/ Discard(w)

\* ------------------------------------------------------------ specifications

\* Any number of GUI/host operations, interleaved with the background work.
EditAnyTime ==
  /\ Edit
  /\ UNCHANGED edits_left

Next ==
  \/ EditAnyTime
  \/ BeginPass
  \/ \E w \in Workers : WorkerStep(w)

Spec == Init /\ [][Next]_vars

\* At most MaxEdits GUI/host operations, after which the edits have stopped.
EditWhileLeft ==
  /\ edits_left > 0
  /\ edits_left' = edits_left - 1
  /\ Edit

LiveNext ==
  \/ EditWhileLeft
  \/ BeginPass
  \/ \E w \in Workers : WorkerStep(w)

\* The scheduler and every worker thread keep being scheduled.
Fairness ==
  /\ WF_vars(BeginPass)
  /\ \A w \in Workers : WF_vars(WorkerStep(w))

LiveSpec == Init /\ [][LiveNext]_vars /\ Fairness

\* ------------------------------------------- concurrent edits of the tables
\* Two threads edit the amplitude and the phase table, each in a block that
\* takes the table's own mutex, writes one cell and drops the guard at the
\* end of the block (shared_params.rs, test_shared_params_thread_safety).

EditThreads == {"amp", "phase"}

\* The values the edits store into a cell; the tables start at 0.0.
Values == {1, 2}

\* params.amplitude_data.lock() and params.phase_data.lock()
MutexOf(t) == IF t = "amp" THEN "amplitude_data" ELSE "phase_data"

TableOf(t) == IF t = "amp" THEN amplitude_data ELSE phase_data

\* amp_data[h][b] = v and phase_data[h][b] = v
StoreCell(t, h, b, v) ==
  IF t = "amp"
    THEN /\ amplitude_data' = [amplitude_data EXCEPT ![h][b] = v]
         /\ UNCHANGED phase_data
    ELSE /\ phase_data' = [phase_data EXCEPT ![h][b] = v]
         /\ UNCHANGED amplitude_data

\* The number of edits the thread t has begun.
Edits(t) == IF local[t] = NoLocals THEN 0 ELSE local[t].edits

\* let mut data = params.<table>.lock().unwrap(): the thread blocks until the
\* mutex is free.  The history field overlapped notes, for both threads, that
\* the other thread was inside its block at that moment.
LockTable(t) ==
  /\ pc[t] = "idle"
  /\ Edits(t) < MaxEdits
  /\ held[MutexOf(t)] = "free"
  /\ held' = [held EXCEPT ![MutexOf(t)] = t]
  /\ pc' = [pc EXCEPT ![t] = "locked"]
  /\ local' = [u \in Threads |->
                 IF u = t
                   THEN [overlapped |->
                           \E o \in EditThreads \ {t} : pc[o] # "idle",
                         edits |-> Edits(t) + 1]
                   ELSE IF u \in EditThreads /\ pc[u] # "idle"
                          THEN [local[u] EXCEPT !.overlapped = TRUE]
                          ELSE local[u]]
  /\ last' = Last("lock", -1, "-", FALSE)
  /\ UNCHANGED <<tableVars, enableVars, voiceVars, bufferVars, workerVars,
                 panicked, edits_left>>

\* data[h][b] = v, with the guard held.
WriteCell(t) ==
  /\ pc[t] = "locked"
  /\ \E h \in DOMAIN TableOf(t) :
       \E b \in DOMAIN TableOf(t)[h] :
         \E v \in Values :
           /\ StoreCell(t, h, b, v)
           /\ local' = [local EXCEPT ![t] =
                          [overlapped |-> local[t].overlapped,
                           edits |-> local[t].edits,
                           h |-> h, b |-> b, v |-> v]]
  /\ pc' = [pc EXCEPT ![t] = "written"]
  /\ last' = Last("write", -1, "-", FALSE)
  /\ UNCHANGED <<piano_periods, enableVars, voiceVars, bufferVars, workerVars,
                 held, panicked, edits_left>>

\* A block end that leaks the guard: the mutex stays locked.
Unlock_LeaksGuard(t) ==
  /\ pc[t] = "written"
  /\ pc' = [pc EXCEPT ![t] = "idle"]
  /\ last' = Last("unlock", -1, "-", FALSE)
  /\ UNCHANGED <<tableVars, enableVars, voiceVars, bufferVars, workerVars,
                 held, local, panicked, edits_left>>

\* The end of the block drops the guard and so unlocks the mutex.  The locals
\* of the block are kept as the history of the thread's last edit.
Unlock(t) ==
  /\ pc[t] = "written"
  /\ held' = [held EXCEPT ![MutexOf(t)] = "free"]
  /\ pc' = [pc EXCEPT ![t] = "idle"]
  /\ last' = Last("unlock", -1, "-", FALSE)
  /\ UNCHANGED <<tableVars, enableVars, voiceVars, bufferVars, workerVars,
                 local, panicked, edits_left>>

EditStep(t) ==
  \/ LockTable(t)
  \/ WriteCell(t)
  \/ Unlock(t)

LockNext == \E t \in EditThreads : EditStep(t)

\* Two concurrent threads, each making at most MaxEdits edits of its table.
LockSpec == Init /\ [][LockNext]_vars

\* -------------------------------------------------------------------- voices
\* struct Voice { buffer, idx, fade_in_active, fade_in_pos, fade_out_active,
\* fade_out_pos } with all fields public (voice.rs).

\* The sample buffers: Vec<f32> of length 0..MaxBufLen.
Buffers == {[i \in 0..(n - 1) |-> i + 1] : n \in 0..MaxBufLen}

\* The voices with fade positions up to MaxPos, fading in, steady or fading
\* out at any position, with the cursor at 0 or on a sample of the buffer.
VoiceStates ==
  {v \in [buffer : Buffers, idx : 0..MaxPos,
          fade_in_active : BOOLEAN, fade_in_pos : 0..MaxPos,
          fade_out_active : BOOLEAN, fade_out_pos : 0..MaxPos] :
     v.idx = 0 \/ v.idx \in DOMAIN v.buffer}

\* The voice calls are exercised on the voice slot of the last key.
VoiceKey == NUM_KEYS - 1

\* A Voice::new that makes a steady voice, with no fade-in.
VoiceNew_Steady(buffer) ==
  [buffer |-> buffer, idx |-> 0,
   fade_in_active |-> FALSE, fade_in_pos |-> 0,
   fade_out_active |-> FALSE, fade_out_pos |-> 0]

\* Voice::new(buffer)
VoiceNew(buffer) ==
  [buffer |-> buffer, idx |-> 0,
   fade_in_active |-> TRUE, fade_in_pos |-> 0,
   fade_out_active |-> FALSE, fade_out_pos |-> 0]

\* Voice::is_fading(&self)
IsFading(v) == v.fade_in_active \/ v.fade_out_active

\* A start_fade_out that also rewinds the sample cursor.
StartFadeOut_Rewinds(v) ==
  [v EXCEPT !.fade_out_active = TRUE, !.fade_out_pos = 0, !.idx = 0]

\* A start_fade_out that toggles the fade-out instead of setting it.
StartFadeOut_Toggles(v) ==
  [v EXCEPT !.fade_out_active = ~@, !.fade_out_pos = 0]

\* Voice::start_fade_out(&mut self): the voice after the call.
StartFadeOut(v) ==
  [v EXCEPT !.fade_out_active = TRUE, !.fade_out_pos = 0]

\* The engine with some voice, or none, in the slot of VoiceKey.
VoiceInit ==
  /\ \E slot \in {None} \cup {Some(v) : v \in VoiceStates} :
       InitWith([SharedParamsNew(MaxHarmonics, MaxBuckets)
                   EXCEPT !.voices = [@ EXCEPT ![VoiceKey] = slot]])
  /\ edits_left = MaxEdits

\* voices[VoiceKey] = Some(Voice::new(buffer))
CallVoiceNew(buffer) ==
  /\ voices' = [voices EXCEPT ![VoiceKey] = Some(VoiceNew(buffer))]
  /\ last' = Last("Voice::new", VoiceKey, buffer, FALSE)
  /\ UNCHANGED <<tableVars, enableVars, fade_duration, bufferVars, workerVars,
                 threadVars, panicked, edits_left>>

\* voice.start_fade_out() on the voice in the slot; pre is the voice before.
CallStartFadeOut ==
  /\ voices[VoiceKey] # None
  /\ voices' = [voices EXCEPT
                  ![VoiceKey] = Some(StartFadeOut(voices[VoiceKey][1]))]
  /\ last' = Last("start_fade_out", VoiceKey, voices[VoiceKey][1], FALSE)
  /\ UNCHANGED <<tableVars, enableVars, fade_duration, bufferVars, workerVars,
                 threadVars, panicked, edits_left>>

\* voice.is_fading() on the voice in the slot; pre is the answer.
CallIsFading ==
  /\ voices[VoiceKey] # None
  /\ last' = Last("is_fading", VoiceKey, IsFading(voices[VoiceKey][1]), FALSE)
  /\ UNCHANGED <<tableVars, enableVars, voiceVars, bufferVars, workerVars,
                 threadVars, panicked, edits_left>>

VoiceNext ==
  \/ \E buffer \in Buffers : CallVoiceNew(buffer)
  \/ CallStartFadeOut
  \/ CallIsFading

VoiceSpec == VoiceInit /\ [][VoiceNext]_vars

\* -------------------------------------------------------------------- tuning
\* populate_piano_periods() run key by key, and then calls of
\* max_harmonic_for_key(key) with keys within and past the range.

Populated == DOMAIN piano_periods = 0..(NUM_KEYS - 1)

\* The engine under construction: the period table is still empty
\* (Vec::with_capacity(NUM_KEYS)).
TuningInit ==
  /\ InitWith([SharedParamsNew(MaxHarmonics, MaxBuckets)
                 EXCEPT !.piano_periods = <<>>])
  /\ edits_left = MaxEdits

\* One round of for key in 0..NUM_KEYS: piano_periods.push(period).
PushPeriod ==
  LET key == Cardinality(DOMAIN piano_periods)
  IN  /\ ~Populated
      /\ last.op # "populate_piano_periods"
      /\ key < NUM_KEYS
      /\ piano_periods' = [k \in 0..key |->
                             IF k < key THEN piano_periods[k]
                                        ELSE PianoPeriod(key)]
      /\ last' = Last("push", key, "-", FALSE)
      /\ UNCHANGED <<amplitude_data, phase_data, enableVars, voiceVars,
                     bufferVars, workerVars, threadVars, panicked, edits_left>>

\* The loop is over and populate_piano_periods returns the table.
ReturnPeriods ==
  /\ Cardinality(DOMAIN piano_periods) >= NUM_KEYS
  /\ last.op = "push"
  /\ last' = Last("populate_piano_periods", -1, "-", FALSE)
  /\ UNCHANGED <<tableVars, enableVars, voiceVars, bufferVars, workerVars,
                 threadVars, panicked, edits_left>>

\* The keys max_harmonic_for_key is called with, within and past the range.
CapKeys == 0..(NUM_KEYS + MaxKeyOverrun)

\* max_harmonic_for_key(key) for every key it is called with, computed once.
MaxHarmonicOf == [key \in CapKeys |-> MaxHarmonicForKey(key)]

\* max_harmonic_for_key(key), called on the constructed engine; pre is the
\* value returned.
CallMaxHarmonicForKey(key) ==
  /\ last.op \notin {"new", "push"}
  /\ last' = Last("max_harmonic_for_key", key, MaxHarmonicOf[key], FALSE)
  /\ UNCHANGED <<tableVars, enableVars, voiceVars, bufferVars, workerVars,
                 threadVars, panicked, edits_left>>

TuningNext ==
  \/ PushPeriod
  \/ ReturnPeriods
  \/ \E key \in CapKeys : CallMaxHarmonicForKey(key)

TuningSpec == TuningInit /\ [][TuningNext]_vars

\* ------------------------------------------- curve controls: enable checkbox
\* draw_curve_controls, column 4 (curve_controls.rs), run by the GUI thread.

\* enum ChartType { Amp, Phase }
ChartType == {"Amp", "Phase"}

\* The mutex the checkbox block locks for chart_type.
FlagsMutexOf(chart_type) ==
  IF chart_type = "Amp" THEN "harmonic_ampl_enabled"
                        ELSE "harmonic_phase_enabled"

FlagsOf(chart_type) ==
  IF chart_type = "Amp" THEN harmonic_ampl_enabled
                        ELSE harmonic_phase_enabled

\* let mut enabled = match chart_type { .. .lock().unwrap() }: the GUI thread
\* enters the block of the checkbox of harmonic idx.  The history field trace
\* lists what the handler has done so far; pre is what its
\* mark_all_buffers_dirty call found.
LockFlags(chart_type, idx) ==
  /\ pc["gui"] = "idle"
  /\ held[FlagsMutexOf(chart_type)] = "free"
  /\ held' = [held EXCEPT ![FlagsMutexOf(chart_type)] = "gui"]
  /\ pc' = [pc EXCEPT !["gui"] = "checkbox"]
  /\ local' = [local EXCEPT !["gui"] =
                 [chart_type |-> chart_type, idx |-> idx,
                  new_enabled |-> None, trace |-> <<>>, pre |-> "-"]]
  /\ last' = Last("lock_flags", -1, "-", FALSE)
  /\ UNCHANGED <<tableVars, enableVars, voiceVars, bufferVars, workerVars,
                 panicked, edits_left>>

\* cols[4].checkbox(&mut enabled[idx], "Enabled"): when the user has clicked,
\* the flag is toggled in place and new_enabled is Some(new_val); otherwise
\* new_enabled is None.
Checkbox(clicked) ==
  LET chart_type == local["gui"].chart_type
      idx == local["gui"].idx
      new_val == ~FlagsOf(chart_type)[idx]
  IN  /\ pc["gui"] = "checkbox"
      /\ IF clicked
           THEN /\ IF chart_type = "Amp"
                     THEN /\ harmonic_ampl_enabled' =
                               [harmonic_ampl_enabled EXCEPT ![idx] = new_val]
                          /\ UNCHANGED harmonic_phase_enabled
                     ELSE /\ harmonic_phase_enabled' =
                               [harmonic_phase_enabled EXCEPT ![idx] = new_val]
                          /\ UNCHANGED harmonic_ampl_enabled
                /\ local' = [local EXCEPT !["gui"].new_enabled = Some(new_val),
                                          !["gui"].trace = <<"store">>]
           ELSE UNCHANGED <<enableVars, local>>
      /\ pc' = [pc EXCEPT !["gui"] = "drop"]
      /\ last' = Last("checkbox", -1, "-", FALSE)
      /\ UNCHANGED <<tableVars, voiceVars, bufferVars, workerVars, held,
                     panicked, edits_left>>

\* A handler that goes on to the chart update without marking the buffers.
DropFlags_SkipsMark ==
  /\ pc["gui"] = "drop"
  /\ held' = [held EXCEPT ![FlagsMutexOf(local["gui"].chart_type)] = "free"]
  /\ pc' = [pc EXCEPT !["gui"] =
              IF local["gui"].new_enabled # None THEN "chart" ELSE "idle"]
  /\ last' = Last("drop_flags", -1, "-", FALSE)
  /\ UNCHANGED <<tableVars, enableVars, voiceVars, bufferVars, workerVars,
                 local, panicked, edits_left>>

\* A block whose guard lives on after its end, through the rest of the
\* handler.
DropFlags_KeepsGuard ==
  /\ pc["gui"] = "drop"
  /\ pc' = [pc EXCEPT !["gui"] =
              IF local["gui"].new_enabled # None THEN "mark" ELSE "idle"]
  /\ last' = Last("drop_flags", -1, "-", FALSE)
  /\ UNCHANGED <<tableVars, enableVars, voiceVars, bufferVars, workerVars,
                 held, local, panicked, edits_left>>

\* The block ends: the guard is dropped, and if let Some(_val) = new_enabled
\* decides whether the handler goes on.
DropFlags ==
  /\ pc["gui"] = "drop"
  /\ held' = [held EXCEPT ![FlagsMutexOf(local["gui"].chart_type)] = "free"]
  /\ pc' = [pc EXCEPT !["gui"] =
              IF local["gui"].new_enabled # None THEN "mark" ELSE "idle"]
  /\ last' = Last("drop_flags", -1, "-", FALSE)
  /\ UNCHANGED <<tableVars, enableVars, voiceVars, bufferVars, workerVars,
                 local, panicked, edits_left>>

\* synth_compute_engine.shared_params.mark_all_buffers_dirty()
HandlerMarkAll ==
  /\ pc["gui"] = "mark"
  /\ MarkAllBuffersDirty
  /\ pc' = [pc EXCEPT !["gui"] = "chart"]
  /\ local' = [local EXCEPT !["gui"].trace = Append(@, "mark_all"),
                            !["gui"].pre = Mix]
  /\ last' = Last("handler_mark_all", -1, Mix, FALSE)
  /\ UNCHANGED <<tableVars, enableVars, voiceVars, wpc, wkey, wbuf, held,
                 edits_left>>

\* synth_compute_engine.update_assembled_chart_with_key24(): the chart is a
\* display of the engine and no part of the modelled state.
UpdateChart ==
  /\ pc["gui"] = "chart"
  /\ pc' = [pc EXCEPT !["gui"] = "notify"]
  /\ local' = [local EXCEPT !["gui"].trace = Append(@, "chart")]
  /\ last' = Last("update_assembled_chart", -1, "-", FALSE)
  /\ UNCHANGED <<tableVars, enableVars, voiceVars, bufferVars, workerVars,
                 held, panicked, edits_left>>

\* params_changed_action(): the callback of the host, the handler's last call.
ParamsChanged ==
  /\ pc["gui"] = "notify"
  /\ pc' = [pc EXCEPT !["gui"] = "idle"]
  /\ local' = [local EXCEPT !["gui"].trace = Append(@, "params_changed")]
  /\ last' = Last("params_changed_action", -1, "-", FALSE)
  /\ UNCHANGED <<tableVars, enableVars, voiceVars, bufferVars, workerVars,
                 held, panicked, edits_left>>

\* One step of the enable checkbox of some harmonic, for either chart type.
CheckboxStep ==
  \/ \E chart_type \in ChartType :
       \E idx \in DOMAIN FlagsOf(chart_type) : LockFlags(chart_type, idx)
  \/ \E clicked \in BOOLEAN : Checkbox(clicked)
  \/ DropFlags
  \/ HandlerMarkAll
  \/ UpdateChart
  \/ ParamsChanged

\* The GUI thread draws the checkboxes while the background work goes on.
\* Discard is left out: it needs a per-key mark_buffer_dirty during a
\* computation, and the checkbox never makes one.
GuiNext ==
  \/ CheckboxStep
  \/ BeginPass
  \/ \E w \in Workers :
       \/ \E key \in ModelKeys : Claim(w, key)
       \/ Synthesize(w)
       \/ Abort(w)
       \/ Publish(w)

GuiSpec == Init /\ [][GuiNext]_vars

\* --------------------------------------------- curve controls: curve type
\* draw_curve_controls, column 3 (curve_controls.rs).  The two fill operations
\* belong to SynthComputeEngine; they are modelled from their contract: a
\* fill overwrites the buckets of one row of the table of the chart type.

\* fill_constant(bucket_values, offset): every bucket is set to offset.
FillConstant(bucket_values, offset) ==
  [i \in DOMAIN bucket_values |-> offset]

\* fill_sine(bucket_values, ..): bucket i is set to a value that depends on
\* i; the sine of the parameters is abstracted to the alternation 1, 2, 1, ..
FillSine(bucket_values) ==
  [i \in DOMAIN bucket_values |-> 1 + (i % 2)]

\* The row idx of the table of chart_type is replaced by row.
StoreRow(chart_type, idx, row) ==
  IF chart_type = "Amp"
    THEN /\ amplitude_data' = [amplitude_data EXCEPT ![idx] = row]
         /\ UNCHANGED phase_data
    ELSE /\ phase_data' = [phase_data EXCEPT ![idx] = row]
         /\ UNCHANGED amplitude_data

RowOf(chart_type, idx) ==
  IF chart_type = "Amp" THEN amplitude_data[idx] ELSE phase_data[idx]

\* synth_compute_engine.fill_sin_curve(idx, chart_type)
FillSinCurve(idx, chart_type) ==
  StoreRow(chart_type, idx, FillSine(RowOf(chart_type, idx)))

\* synth_compute_engine.fill_constant_curve(idx, offset_value, chart_type)
FillConstantCurve(idx, offset, chart_type) ==
  StoreRow(chart_type, idx, FillConstant(RowOf(chart_type, idx), offset))

\* enum CurveType { Constant, Sine }
CurveType == {"Constant", "Sine"}

\* A click on a variant of the combo of harmonic idx: match variant { .. }
\* then params_changed_action().
CurveTypeCombo(chart_type, idx, variant, offset) ==
  /\ pc["gui"] = "idle"
  /\ IF variant = "Sine"
       THEN FillSinCurve(idx, chart_type)
       ELSE FillConstantCurve(idx, offset, chart_type)
  /\ last' = Last("curve_type_combo", -1, "-", FALSE)
  /\ UNCHANGED <<piano_periods, enableVars, voiceVars, bufferVars, workerVars,
                 threadVars, panicked, edits_left>>

\* The arguments of SharedParams::new: tables of one shape and of the two
\* shapes with one more row or one more bucket.
NewArgs ==
  {<<MaxHarmonics, MaxBuckets>>, <<MaxHarmonics, MaxBuckets + 1>>,
   <<MaxHarmonics + 1, MaxBuckets>>}

TableInit ==
  /\ \E args \in NewArgs : InitWith(SharedParamsNew(args[1], args[2]))
  /\ edits_left = MaxEdits

\* The GUI thread alone: curve fills, enable checkboxes, and the marking of
\* buffers by parameter changes.
TableNext ==
  \/ \E chart_type \in ChartType, variant \in CurveType, offset \in Values :
       \E idx \in DOMAIN FlagsOf(chart_type) :
         CurveTypeCombo(chart_type, idx, variant, offset)
  \/ CheckboxStep
  \/ EditAnyTime

TableSpec == TableInit /\ [][TableNext]_vars

\* ------------------------------------------- mark_all_buffers_dirty, lock by lock
\* mark_all_buffers_dirty taken step by step (shared_params.rs 90-99), as the
\* call of the checkbox handler (curve_controls.rs 191) or as a call of its
\* own.  A host thread stands for a worker or a callback that takes the
\* buffer-states lock first and the lock of a flag vector second.

\* The threads that call mark_all_buffers_dirty.
MarkCallers == {"gui", "host"}

\* TRUE when thread t is inside the checkbox handler.
InHandler(t) == local[t] # NoLocals /\ "trace" \in DOMAIN local[t]

\* The locals of t with the history of its mark_all_buffers_dirty call: pre
\* is what the call found, stored that its flag write is done, forced that it
\* has written Dirty over a Clean or Computing entry.
WithMark(t, pre, stored, forced) ==
  IF InHandler(t)
    THEN [chart_type |-> local[t].chart_type, idx |-> local[t].idx,
          new_enabled |-> local[t].new_enabled, trace |-> local[t].trace,
          pre |-> pre, stored |-> stored, forced |-> forced]
    ELSE [pre |-> pre, stored |-> stored, forced |-> forced]

\* A call of mark_all_buffers_dirty() outside the checkbox handler.
BeginMarkAll(t) ==
  /\ pc[t] = "idle"
  /\ pc' = [pc EXCEPT ![t] = "mark"]
  /\ local' = [local EXCEPT ![t] = NoLocals]
  /\ last' = Background
  /\ UNCHANGED <<tableVars, enableVars, voiceVars, bufferVars, workerVars,
                 held, panicked, edits_left>>

\* self.computation_cancel.store(true, Ordering::Relaxed): an atomic store,
\* which takes no lock.
StoreCancel(t) ==
  /\ pc[t] = "mark"
  /\ computation_cancel' = TRUE
  /\ pc' = [pc EXCEPT ![t] = "mark_lock"]
  /\ local' = [local EXCEPT ![t] = WithMark(t, Mix, TRUE, FALSE)]
  /\ last' = Background
  /\ UNCHANGED <<tableVars, enableVars, voiceVars, key_buffers, buffer_states,
                 workerVars, held, panicked, edits_left>>

\* A mark_all_buffers_dirty that may take the lock with its flag write
\* pending, and then never makes that write.
LockStates_BeforeStore(t) ==
  /\ pc[t] \in {"mark", "mark_lock"}
  /\ held["buffer_states"] = "free"
  /\ held' = [held EXCEPT !["buffer_states"] = t]
  /\ pc' = [pc EXCEPT ![t] = "mark_write"]
  /\ local' = [local EXCEPT ![t] =
                 IF pc[t] = "mark" THEN WithMark(t, Mix, FALSE, FALSE) ELSE @]
  /\ last' = Background
  /\ UNCHANGED <<tableVars, enableVars, voiceVars, bufferVars, workerVars,
                 panicked, edits_left>>

\* let mut buffer_states = self.buffer_states.lock().unwrap(): the caller
\* waits until the mutex is free.
LockStates(t) ==
  /\ pc[t] = "mark_lock"
  /\ held["buffer_states"] = "free"
  /\ held' = [held EXCEPT !["buffer_states"] = t]
  /\ pc' = [pc EXCEPT ![t] = "mark_write"]
  /\ last' = Background
  /\ UNCHANGED <<tableVars, enableVars, voiceVars, bufferVars, workerVars,
                 local, panicked, edits_left>>

\* for state in buffer_states.iter_mut() { if *state != Dirty { *state = Dirty } }
\* The loop runs under the lock, so no other thread sees it half done.
WriteStates(t) ==
  /\ pc[t] = "mark_write"
  /\ buffer_states' = [k \in DOMAIN buffer_states |->
                         IF buffer_states[k] # "Dirty" THEN "Dirty"
                                                       ELSE buffer_states[k]]
  /\ wdirtied' = [w \in Workers |-> wdirtied[w] \/ wpc[w] = "built"]
  /\ pc' = [pc EXCEPT ![t] = "mark_unlock"]
  /\ local' = [local EXCEPT ![t].forced =
                 \E k \in DOMAIN buffer_states : buffer_states[k] # "Dirty"]
  /\ last' = Background
  /\ UNCHANGED <<tableVars, enableVars, voiceVars, key_buffers,
                 computation_cancel, wpc, wkey, wbuf, held, panicked,
                 edits_left>>

\* The guard is dropped when mark_all_buffers_dirty returns, to the handler
\* or to the caller.
UnlockStates(t) ==
  /\ pc[t] = "mark_unlock"
  /\ held' = [held EXCEPT !["buffer_states"] = "free"]
  /\ IF InHandler(t)
       THEN /\ pc' = [pc EXCEPT ![t] = "chart"]
            /\ local' = [local EXCEPT ![t].trace = Append(@, "mark_all")]
       ELSE /\ pc' = [pc EXCEPT ![t] = "idle"]
            /\ UNCHANGED local
  /\ last' = Background
  /\ UNCHANGED <<tableVars, enableVars, voiceVars, bufferVars, workerVars,
                 panicked, edits_left>>

\* One step of mark_all_buffers_dirty() on thread t.
MarkAllStep(t) ==
  \/ StoreCancel(t)
  \/ LockStates(t)
  \/ WriteStates(t)
  \/ UnlockStates(t)

\* params_changed_action(): the callback of the host runs on the GUI thread
\* and may take a mutex m of SharedParams itself; a std::sync::Mutex is not
\* reentrant, so the callback waits while m is held, by whomever.
Callback(m) ==
  /\ held[m] = "free"
  /\ ParamsChanged

\* A worker's step changes buffer_states under the mutex of that vector.
LockedWorkerStep(w) ==
  /\ held["buffer_states"] = "free"
  /\ \/ \E key \in ModelKeys : Claim(w, key)
     \/ Synthesize(w)
     \/ Abort(w)
     \/ Publish(w)

\* The host thread takes the buffer-states lock ...
HostLockStates ==
  /\ pc["host"] = "idle"
  /\ held["buffer_states"] = "free"
  /\ held' = [held EXCEPT !["buffer_states"] = "host"]
  /\ pc' = [pc EXCEPT !["host"] = "has_states"]
  /\ last' = Background
  /\ UNCHANGED <<tableVars, enableVars, voiceVars, bufferVars, workerVars,
                 local, panicked, edits_left>>

\* ... and, holding it, the lock of a vector of flags ...
HostLockFlags(chart_type) ==
  /\ pc["host"] = "has_states"
  /\ held[FlagsMutexOf(chart_type)] = "free"
  /\ held' = [held EXCEPT ![FlagsMutexOf(chart_type)] = "host"]
  /\ pc' = [pc EXCEPT !["host"] = "has_both"]
  /\ last' = Background
  /\ UNCHANGED <<tableVars, enableVars, voiceVars, bufferVars, workerVars,
                 local, panicked, edits_left>>

\* ... and drops both.
HostUnlock ==
  /\ pc["host"] = "has_both"
  /\ held' = [m \in Mutexes |-> IF held[m] = "host" THEN "free" ELSE held[m]]
  /\ pc' = [pc EXCEPT !["host"] = "idle"]
  /\ last' = Background
  /\ UNCHANGED <<tableVars, enableVars, voiceVars, bufferVars, workerVars,
                 local, panicked, edits_left>>

HostStep ==
  \/ HostLockStates
  \/ \E chart_type \in ChartType : HostLockFlags(chart_type)
  \/ HostUnlock

\* One step of the GUI thread in the checkbox handler, lock by lock.
HandlerStep ==
  \/ \E chart_type \in ChartType :
       \E idx \in DOMAIN FlagsOf(chart_type) : LockFlags(chart_type, idx)
  \/ \E clicked \in BOOLEAN : Checkbox(clicked)
  \/ DropFlags
  \/ MarkAllStep("gui")
  \/ UpdateChart
  \/ \E m \in Mutexes : Callback(m)

\* The handler next to a thread that takes the locks in the other order.
OrderNext ==
  \/ HandlerStep
  \/ HostStep

OrderSpec == Init /\ [][OrderNext]_vars

\* Calls of mark_all_buffers_dirty() from two threads next to the background
\* work.
MarkNext ==
  \/ \E t \in MarkCallers : BeginMarkAll(t) \/ MarkAllStep(t)
  \/ BeginPass
  \/ \E w \in Workers : LockedWorkerStep(w)

MarkSpec == Init /\ [][MarkNext]_vars

\* ------------------------------------------------- curve controls: sliders
\* draw_curve_controls, columns 0 to 2 (curve_controls.rs 51-128).  A handler
\* runs when the drag of its slider stops; curve is curve.value() and offset
\* is offset.value() at that time, parameters of the host.

\* What a handler of the curve controls did: its inputs, the tables it found
\* and the calls it made, in their order.
Handled(chart_type, curve, offset, calls) ==
  [chart_type |-> chart_type, curve |-> curve, offset |-> offset,
   calls |-> calls, before |-> <<amplitude_data, phase_data>>]

\* The engine call that fills a row for a curve type.
FillCallOf(curve) ==
  IF curve = "Sine" THEN "fill_sin_curve" ELSE "fill_constant_curve"

\* Column 0: match curve.value() { Sine => fill_sin_curve, Constant =>
\* fill_constant_curve(idx, offset.value(), ..) }; params_changed_action().
OffsetSlider(chart_type, idx, curve, offset) ==
  /\ pc["gui"] = "idle"
  /\ IF curve = "Sine"
       THEN FillSinCurve(idx, chart_type)
       ELSE FillConstantCurve(idx, offset, chart_type)
  /\ last' = Last("offset_slider", idx,
                  Handled(chart_type, curve, offset,
                          <<FillCallOf(curve), "params_changed_action">>),
                  FALSE)
  /\ UNCHANGED <<piano_periods, enableVars, voiceVars, bufferVars, workerVars,
                 threadVars, panicked, edits_left>>

\* A slider of a sine parameter (op names which) that refills the row with
\* the sine whatever the curve type is.
SineSlider_AlwaysFills(op, chart_type, idx, curve, offset) ==
  /\ pc["gui"] = "idle"
  /\ FillSinCurve(idx, chart_type)
  /\ last' = Last(op, idx,
                  Handled(chart_type, curve, offset,
                          IF curve = "Sine"
                            THEN <<"fill_sin_curve", "params_changed_action">>
                            ELSE <<"params_changed_action">>),
                  FALSE)
  /\ UNCHANGED <<piano_periods, enableVars, voiceVars, bufferVars, workerVars,
                 threadVars, panicked, edits_left>>

\* Columns 1 and 2 (op names which): if curve.value() == CurveType::Sine
\* { fill_sin_curve(idx, ..) }; params_changed_action().
SineSlider(op, chart_type, idx, curve, offset) ==
  /\ pc["gui"] = "idle"
  /\ IF curve = "Sine"
       THEN FillSinCurve(idx, chart_type)
       ELSE UNCHANGED <<amplitude_data, phase_data>>
  /\ last' = Last(op, idx,
                  Handled(chart_type, curve, offset,
                          IF curve = "Sine"
                            THEN <<"fill_sin_curve", "params_changed_action">>
                            ELSE <<"params_changed_action">>),
                  FALSE)
  /\ UNCHANGED <<piano_periods, enableVars, voiceVars, bufferVars, workerVars,
                 threadVars, panicked, edits_left>>

\* Column 1: the slider of the sine amplitude.
SineAmpSlider(chart_type, idx, curve, offset) ==
  SineSlider("sine_amp_slider", chart_type, idx, curve, offset)

\* Column 2: the slider of the sine frequency.
SineFreqSlider(chart_type, idx, curve, offset) ==
  SineSlider("sine_freq_slider", chart_type, idx, curve, offset)

\* Column 3: a click on a variant of the combo; the fill is chosen by the
\* variant clicked.
CurveTypeSelected(chart_type, idx, variant, offset) ==
  /\ pc["gui"] = "idle"
  /\ IF variant = "Sine"
       THEN FillSinCurve(idx, chart_type)
       ELSE FillConstantCurve(idx, offset, chart_type)
  /\ last' = Last("curve_type_selected", idx,
                  Handled(chart_type, variant, offset,
                          <<FillCallOf(variant), "params_changed_action">>),
                  FALSE)
  /\ UNCHANGED <<piano_periods, enableVars, voiceVars, bufferVars, workerVars,
                 threadVars, panicked, edits_left>>

\* The GUI thread at the sliders and the combo of any harmonic.
CurveNext ==
  \/ \E chart_type \in ChartType, curve \in CurveType, offset \in Values :
       \E idx \in DOMAIN FlagsOf(chart_type) :
         OffsetSlider(chart_type, idx, curve, offset)
  \/ \E chart_type \in ChartType, curve \in CurveType, offset \in Values :
       \E idx \in DOMAIN FlagsOf(chart_type) :
         SineAmpSlider(chart_type, idx, curve, offset)
  \/ \E chart_type \in ChartType, curve \in CurveType, offset \in Values :
       \E idx \in DOMAIN FlagsOf(chart_type) :
         SineFreqSlider(chart_type, idx, curve, offset)
  \/ \E chart_type \in ChartType, variant \in CurveType, offset \in Values :
       \E idx \in DOMAIN FlagsOf(chart_type) :
         CurveTypeSelected(chart_type, idx, variant, offset)

CurveSpec == TableInit /\ [][CurveNext]_vars

\* ------------------------------------------------------- voices: fade flags
\* The calls of Voice::new and start_fade_out on the engine as constructed,
\* whose slots hold no voice: every voice here was made by Voice::new and
\* changed by start_fade_out only.

\* The slots the calls are made on: the first key and the last.
FadeKeys == {0, VoiceKey}

\* voices[key] = Some(Voice::new(buffer)), a note-on of the key.
NoteOn(key, buffer) ==
  /\ voices' = [voices EXCEPT ![key] = Some(VoiceNew(buffer))]
  /\ last' = Last("Voice::new", key, buffer, FALSE)
  /\ UNCHANGED <<tableVars, enableVars, fade_duration, bufferVars, workerVars,
                 threadVars, panicked, edits_left>>

\* voice.start_fade_out() on the voice of the key, a note-off; pre is the
\* voice before.
NoteOff(key) ==
  /\ voices[key] # None
  /\ voices' = [voices EXCEPT ![key] = Some(StartFadeOut(voices[key][1]))]
  /\ last' = Last("start_fade_out", key, voices[key][1], FALSE)
  /\ UNCHANGED <<tableVars, enableVars, fade_duration, bufferVars, workerVars,
                 threadVars, panicked, edits_left>>

FadeNext ==
  \/ \E key \in FadeKeys, buffer \in Buffers : NoteOn(key, buffer)
  \/ \E key \in FadeKeys : NoteOff(key)

FadeSpec == Init /\ [][FadeNext]_vars

\* ------------------------------------------------------------------- claims

AllDirty == \A k \in Keys : buffer_states[k] = "Dirty"

\* C1: once mark_all_buffers_dirty() has returned, whatever mix of Clean,
\* Dirty and Computing entries and whatever flag it found, every one of the
\* NUM_KEYS buffer states is Dirty and the cancellation flag is true.
C1_MarkAllLeavesAllDirty ==
  last.op = "mark_all_buffers_dirty" =>
    /\ DOMAIN buffer_states = 0..87
    /\ AllDirty
    /\ computation_cancel = TRUE

\* The call found Clean, Dirty and Computing entries and the flag clear.
C1_Witness ==
  /\ last.op = "mark_all_buffers_dirty"
  /\ last.pre = "mixed"
  /\ AllDirty
  /\ computation_cancel

\* C2: after mark_buffer_dirty(key) with key in [0, NUM_KEYS) has returned,
\* the state of that key is Dirty, whatever it was before.
C2_MarkBufferLeavesKeyDirty ==
  (last.op = "mark_buffer_dirty" /\ last.key < NUM_KEYS) =>
    buffer_states[last.key] = "Dirty"

\* The last key was Computing when mark_buffer_dirty was called on it.
C2_Witness ==
  /\ last.op = "mark_buffer_dirty"
  /\ last.key = NUM_KEYS - 1
  /\ last.pre = "Computing"
  /\ buffer_states[NUM_KEYS - 1] = "Dirty"

\* C3: every dirtying edit raises the cancellation flag: after
\* mark_buffer_dirty(key) with key in [0, NUM_KEYS) has returned, and after
\* mark_all_buffers_dirty() has returned, the cancellation flag is true.
C3_EveryEditRaisesCancel ==
  (\/ last.op = "mark_all_buffers_dirty"
   \/ (last.op = "mark_buffer_dirty" /\ last.key < NUM_KEYS)) =>
    computation_cancel = TRUE

\* C4: a key whose state is Clean holds a buffer computed from the harmonic
\* data as it is now, and a buffer that was built before an edit dirtied its
\* key is discarded, never published.
C4_CleanIsCurrent ==
  /\ \A k \in Keys :
       buffer_states[k] = "Clean" =>
         key_buffers[k] = Some([key |-> k, from |-> HarmonicData])
  /\ last.op = "publish" => ~last.dirtied

\* C5: at every moment at most one background computation owns a given key:
\* no two workers are in flight on the same key.
C5_OneComputationPerKey ==
  \A w1, w2 \in Workers :
    (w1 # w2 /\ wpc[w1] # "idle" /\ wpc[w2] # "idle") => wkey[w1] # wkey[w2]

\* C6: a background computation that observes the cancellation flag set ends
\* with its key in state Dirty and with every published buffer as it was:
\* what it has built is not stored.
C6_CancelledLeavesDirty ==
  [][\A w \in Workers :
       (wpc[w] # "idle" /\ computation_cancel /\ wpc'[w] = "idle") =>
         /\ buffer_states'[wkey[w]] = "Dirty"
         /\ key_buffers' = key_buffers]_vars

\* A computation was cancelled on a key that holds a buffer published before.
C6_Witness ==
  /\ last.op = "abort"
  /\ buffer_states[last.key] = "Dirty"
  /\ key_buffers[last.key] # None

\* C7: a key's published buffer changes only in the step that takes the key
\* from Computing to Clean, and then to a complete buffer of that key; while
\* the key is Dirty or Computing the buffer published before stays in place.
C7_PublishedOnlyAtClean ==
  [][\A k \in Keys :
       key_buffers'[k] # key_buffers[k] =>
         /\ buffer_states[k] = "Computing"
         /\ buffer_states'[k] = "Clean"
         /\ key_buffers'[k] = Some([key |-> k, from |-> HarmonicData'])]_vars

\* A key is being recomputed while the buffer published before is in place.
C7_Witness ==
  \E k \in ModelKeys :
    /\ buffer_states[k] = "Computing"
    /\ key_buffers[k] # None
    /\ \E w \in Workers : wpc[w] = "built" /\ wkey[w] = k

AllModelKeysClean == \A k \in ModelKeys : buffer_states[k] = "Clean"

\* C8: once the dirtying edits have stopped, with the scheduler and the
\* workers scheduled fairly, every key the scheduler visits ends up Clean and
\* stays so, and the cancellation flag ends up clear.
C8_EventuallyClean == <>[](AllModelKeysClean /\ ~computation_cancel)

\* The edits have stopped and a computation has just been cancelled.
C8_Witness ==
  /\ edits_left = 0
  /\ last.op = "abort"
  /\ computation_cancel
  /\ buffer_states[last.key] = "Dirty"

\* C9: mark_buffer_dirty(key) with key >= NUM_KEYS changes no buffer state,
\* no key buffer and not the cancellation flag, and does not panic.
C9_OutOfRangeIsNoOp ==
  [][(last'.op = "mark_buffer_dirty" /\ last'.key >= NUM_KEYS) =>
       /\ UNCHANGED <<buffer_states, key_buffers, computation_cancel>>
       /\ ~panicked']_vars

\* mark_buffer_dirty(NUM_KEYS) has returned with a Clean and a Computing key
\* in the table.
C9_Witness ==
  /\ last.op = "mark_buffer_dirty"
  /\ last.key = NUM_KEYS
  /\ ~panicked
  /\ \E k \in ModelKeys : buffer_states[k] = "Clean"
  /\ \E k \in ModelKeys : buffer_states[k] = "Computing"

\* C10: right after construction all NUM_KEYS buffer states are Dirty, all
\* key buffers are None, all voice slots are empty, the cancellation flag is
\* false and fade_duration is 128.
C10_FreshEngine ==
  last.op = "new" =>
    /\ DOMAIN buffer_states = 0..87 /\ AllDirty
    /\ DOMAIN key_buffers = 0..87 /\ \A k \in 0..87 : key_buffers[k] = None
    /\ DOMAIN voices = 0..87 /\ \A k \in 0..87 : voices[k] = None
    /\ computation_cancel = FALSE
    /\ fade_duration = 128

\* The engine as SharedParams::new has just made it.
C10_Witness ==
  /\ last.op = "new"
  /\ Cardinality(DOMAIN buffer_states) = 88
  /\ \A w \in Workers : wpc[w] = "idle"

\* C11: in every reachable state no key is Clean while its buffer is absent:
\* state Clean implies that the key's buffer is present.
C11_CleanHasBuffer ==
  \A k \in Keys : buffer_states[k] = "Clean" => key_buffers[k] # None

\* A key has just been published while another key, not Clean, has no buffer
\* yet.
C11_Witness ==
  /\ \E k \in ModelKeys : buffer_states[k] = "Clean" /\ key_buffers[k] # None
  /\ \E k \in ModelKeys : buffer_states[k] # "Clean" /\ key_buffers[k] = None
  /\ last.op = "publish"

\* C12: editing the amplitude table and the phase table concurrently, each
\* under its own mutex, never deadlocks: a thread that is in its block, or
\* that has an edit to make, can always take its next step, whatever the
\* other thread does; and once a thread has left its block the value it
\* stored is in its table.
C12_NoDeadlockBothApply ==
  /\ \A t \in EditThreads :
       (pc[t] # "idle" \/ Edits(t) < MaxEdits) => ENABLED EditStep(t)
  /\ \A t \in EditThreads :
       (pc[t] = "idle" /\ Edits(t) > 0) =>
         TableOf(t)[local[t].h][local[t].b] = local[t].v

\* Both threads have finished an edit made while the other was in its block,
\* and both values are in the tables.
C12_Witness ==
  /\ \A t \in EditThreads :
       /\ pc[t] = "idle"
       /\ Edits(t) > 0
       /\ local[t].overlapped
       /\ TableOf(t)[local[t].h][local[t].b] = local[t].v
  /\ \A m \in Mutexes : held[m] = "free"

\* The voice in the slot of VoiceKey.
TheVoice == voices[VoiceKey][1]

\* C13: a voice made by Voice::new(buf) has idx = 0, fade_in_active = true,
\* fade_in_pos = 0, fade_out_active = false, fade_out_pos = 0, plays exactly
\* buf, and is_fading() is true.
C13_NewVoice ==
  last.op = "Voice::new" =>
    /\ voices[VoiceKey] # None
    /\ TheVoice.idx = 0
    /\ TheVoice.fade_in_active = TRUE
    /\ TheVoice.fade_in_pos = 0
    /\ TheVoice.fade_out_active = FALSE
    /\ TheVoice.fade_out_pos = 0
    /\ TheVoice.buffer = last.pre
    /\ IsFading(TheVoice) = TRUE

\* Voice::new has been called with a buffer of MaxBufLen samples.
C13_Witness ==
  /\ last.op = "Voice::new"
  /\ DOMAIN last.pre = 0..(MaxBufLen - 1)
  /\ voices[VoiceKey] # None
  /\ TheVoice.buffer = last.pre

\* C14: from any voice state (fading in, steady, or fading out at any
\* position), start_fade_out() leaves fade_out_active = true and
\* fade_out_pos = 0, makes is_fading() true, and leaves buffer, idx,
\* fade_in_active and fade_in_pos as they were.
C14_StartFadeOut ==
  last.op = "start_fade_out" =>
    /\ voices[VoiceKey] # None
    /\ TheVoice.fade_out_active = TRUE
    /\ TheVoice.fade_out_pos = 0
    /\ IsFading(TheVoice) = TRUE
    /\ TheVoice.buffer = last.pre.buffer
    /\ TheVoice.idx = last.pre.idx
    /\ TheVoice.fade_in_active = last.pre.fade_in_active
    /\ TheVoice.fade_in_pos = last.pre.fade_in_pos

\* start_fade_out() has been called on a steady voice in mid-buffer.
C14_Witness ==
  /\ last.op = "start_fade_out"
  /\ ~last.pre.fade_in_active /\ ~last.pre.fade_out_active
  /\ last.pre.idx > 0
  /\ TheVoice.fade_out_active /\ TheVoice.idx = last.pre.idx

\* C15: start_fade_out() is idempotent: after a call, a second call in a row
\* leaves the voice as the first call left it; and a call made while a
\* fade-out is in progress (fade_out_pos > 0) restarts it at position 0.
C15_StartFadeOutIdempotent ==
  last.op = "start_fade_out" =>
    /\ StartFadeOut(TheVoice) = TheVoice
    /\ StartFadeOut(StartFadeOut(last.pre)) = StartFadeOut(last.pre)
    /\ (last.pre.fade_out_active /\ last.pre.fade_out_pos > 0) =>
         (TheVoice.fade_out_active /\ TheVoice.fade_out_pos = 0)

\* start_fade_out() has been called while a fade-out was in progress.
C15_Witness ==
  /\ last.op = "start_fade_out"
  /\ last.pre.fade_out_active /\ last.pre.fade_out_pos > 0
  /\ TheVoice.fade_out_pos = 0

\* The f64 evaluation of max_harmonic_for_key(key) yields c as well.
CapIsSure(key, c) ==
  IF c < NUM_HARMONICS
    THEN FloorIsSure(NYQUIST_FREQUENCY, key, c)
    ELSE FloorIsSurelyAtLeast(NYQUIST_FREQUENCY, key, NUM_HARMONICS)

\* C16: max_harmonic_for_key returns more than 50 for key 0, fewer than 10 for
\* key 87, 0 for key 88 and every key past it, and does not increase from a
\* key in [0,88) to the next key.
C16_AliasingCap ==
  last.op = "max_harmonic_for_key" =>
    /\ last.key = 0 => last.pre > 50
    /\ last.key = 87 => last.pre < 10
    /\ last.key >= 88 => last.pre = 0
    /\ last.key < 88 =>
         /\ MaxHarmonicForKey(last.key + 1) <= last.pre
         /\ CapIsSure(last.key, last.pre)

\* max_harmonic_for_key(88) has returned 0.
C16_Witness ==
  /\ last.op = "max_harmonic_for_key"
  /\ last.key = NUM_KEYS
  /\ last.pre = 0
  /\ MaxHarmonicForKey(NUM_KEYS - 1) > 0

\* C17: for every key in [0,88) the cap is at most 64, every harmonic number
\* h in 1..cap has its frequency h * 27.5 * 2^(key/12) strictly below the
\* Nyquist frequency 22050, and when the cap is below 64 the harmonic cap+1
\* is not below the Nyquist frequency.
C17_CapIsHardCeiling ==
  (last.op = "max_harmonic_for_key" /\ last.key < 88) =>
    /\ last.pre <= 64
    /\ \A h \in 1..last.pre : FreqTimesLt(h, last.key, 22050)
    /\ last.pre < 64 => ~FreqTimesLt(last.pre + 1, last.key, 22050)
    /\ CapIsSure(last.key, last.pre)

\* A key whose cap lies below 64: fewer harmonics than configured fit.
C17_Witness ==
  /\ last.op = "max_harmonic_for_key"
  /\ last.key < NUM_KEYS
  /\ last.pre > 0 /\ last.pre < NUM_HARMONICS
  /\ FreqTimesLt(last.pre, last.key, NYQUIST_FREQUENCY)

\* C18: the piano period table has exactly 88 entries; the entry of key k is
\* round(44100 / (27.5 * 2^(k/12))), in exact arithmetic and in f64 alike;
\* and for every k in [0,76) period(k) / period(k+12) is within 0.1 of 2.0.
C18_PianoPeriods ==
  /\ Cardinality(DOMAIN piano_periods) <= 88
  /\ last.op = "push" =>
       /\ last.key \in DOMAIN piano_periods
       /\ RoundIsSure(44100, last.key, piano_periods[last.key])
       /\ last.key >= 12 =>
            LET p == piano_periods[last.key - 12]
                q == piano_periods[last.key]
            IN  10 * (p - 2 * q) < q /\ 10 * (2 * q - p) < q
  /\ last.op = "populate_piano_periods" =>
       /\ DOMAIN piano_periods = 0..87
       /\ piano_periods = PopulatePianoPeriods

\* populate_piano_periods has returned a table that starts with 1604 samples
\* for key 0 and ends with 11 samples for key 87.
C18_Witness ==
  /\ last.op = "populate_piano_periods"
  /\ Populated
  /\ piano_periods[0] = 1604
  /\ piano_periods[NUM_KEYS - 1] = 11

\* The shape of the harmonic data: the rows of either table, the buckets of
\* every row, and the entries of either vector of flags.
TableShape ==
  [amplitude_rows |-> DOMAIN amplitude_data,
   amplitude_buckets |-> [h \in DOMAIN amplitude_data |->
                            DOMAIN amplitude_data[h]],
   phase_rows |-> DOMAIN phase_data,
   phase_buckets |-> [h \in DOMAIN phase_data |-> DOMAIN phase_data[h]],
   ampl_enabled |-> DOMAIN harmonic_ampl_enabled,
   phase_enabled |-> DOMAIN harmonic_phase_enabled]

\* SharedParams::new(num_harmonics, buckets) gives two tables of
\* num_harmonics rows of buckets entries and two vectors of num_harmonics
\* flags, all true.
NewHasShape ==
  \A args \in NewArgs :
    LET num_harmonics == args[1]
        buckets == args[2]
        p == SharedParamsNew(num_harmonics, buckets)
        rows == 0..(num_harmonics - 1)
    IN  /\ DOMAIN p.amplitude_data = rows
        /\ DOMAIN p.phase_data = rows
        /\ \A h \in rows : /\ DOMAIN p.amplitude_data[h] = 0..(buckets - 1)
                           /\ DOMAIN p.phase_data[h] = 0..(buckets - 1)
        /\ p.harmonic_ampl_enabled = [h \in rows |-> TRUE]
        /\ p.harmonic_phase_enabled = [h \in rows |-> TRUE]

\* C19: after SharedParams::new(num_harmonics, buckets) the amplitude and the
\* phase table have num_harmonics rows of buckets entries each and both
\* enable vectors have num_harmonics entries, all true; and no later
\* operation (a curve fill, a toggle of an enable flag, a marking of buffers)
\* changes the number of rows, the length of a row or the length of a vector.
C19_DimensionsFixed ==
  /\ []NewHasShape
  /\ [][TableShape' = TableShape]_vars

\* Witness of C19: in a table with more than MaxBuckets buckets a row holds a
\* sine fill, the flag of that row has been switched off, and the buffers
\* have been marked.
C19_Witness ==
  \E h \in DOMAIN amplitude_data :
    /\ DOMAIN amplitude_data[h] = 0..MaxBuckets
    /\ amplitude_data[h] = FillSine(amplitude_data[h])
    /\ ~harmonic_ampl_enabled[h]
    /\ computation_cancel

\* The calls of a checkbox handler whose checkbox changed, in their order.
HandlerCalls == <<"store", "mark_all", "chart", "params_changed">>

\* What a step of the GUI thread in the checkbox handler does.
CheckboxHandlerStep ==
  LET g == local["gui"]
      g2 == local'["gui"]
      at == pc["gui"]
      to == pc'["gui"]
  IN  \* the calls made so far are an initial part of HandlerCalls
      /\ \E n \in 0..Len(HandlerCalls) : g2.trace = SubSeq(HandlerCalls, 1, n)
      \* the checkbox stores the new flag exactly when it changed
      /\ at = "checkbox" =>
           IF g2.new_enabled # None
             THEN /\ FlagsOf(g.chart_type)'[g.idx] = ~FlagsOf(g.chart_type)[g.idx]
                  /\ g2.new_enabled = Some(FlagsOf(g.chart_type)'[g.idx])
                  /\ g2.trace = <<"store">>
             ELSE /\ UNCHANGED enableVars
                  /\ g2.trace = <<>>
      \* a changed checkbox goes on to mark, an unchanged one ends the handler
      /\ at = "drop" =>
           to = IF g.new_enabled # None THEN "mark" ELSE "idle"
      \* the marking leaves all 88 buffers Dirty and the flag raised
      /\ at = "mark" =>
           /\ to = "chart"
           /\ AllDirty'
           /\ DOMAIN buffer_states' = 0..87
           /\ computation_cancel' = TRUE
      \* no other step of the handler touches a state or the flag
      /\ at # "mark" => UNCHANGED <<buffer_states, computation_cancel>>

\* C20: when the enable checkbox of a harmonic changes, the handler stores the
\* new flag, then marks all 88 buffers Dirty and raises the cancellation
\* flag, and only then updates the chart and calls params_changed_action;
\* when the checkbox did not change, the handler touches no buffer state and
\* not the cancellation flag.
C20_CheckboxMarksBeforeChart ==
  [][pc'["gui"] # pc["gui"] => CheckboxHandlerStep]_vars

\* Witness of C20: a handler whose checkbox changed has made all its calls,
\* and its marking found Clean, Dirty and Computing entries and a clear flag.
C20_Witness ==
  /\ pc["gui"] = "idle"
  /\ local["gui"] # NoLocals
  /\ local["gui"].trace = HandlerCalls
  /\ local["gui"].pre = "mixed"

\* The mutexes thread t holds.
HeldBy(t) == {m \in Mutexes : held[m] = t}

FlagsMutexes == {FlagsMutexOf(chart_type) : chart_type \in ChartType}

\* C21: the enable-checkbox handler never holds the lock of a flag vector
\* while it takes the buffer-states lock or calls params_changed_action: it
\* has released that lock before, it never holds two locks at once (inside
\* mark_all_buffers_dirty only the buffer-states lock), and so it cannot
\* deadlock with a thread that takes the same locks in the other order: in
\* every state some thread can step.
C21_FlagsLockReleasedFirst ==
  /\ pc["gui"] \in {"mark", "mark_lock", "mark_write", "mark_unlock",
                    "chart", "notify"} =>
       HeldBy("gui") \cap FlagsMutexes = {}
  /\ pc["gui"] \in {"mark_write", "mark_unlock"} =>
       HeldBy("gui") = {"buffer_states"}
  /\ pc["gui"] = "notify" => HeldBy("gui") = {}
  /\ Cardinality(HeldBy("gui")) <= 1
  /\ ENABLED OrderNext

\* Witness of C21: the handler, its checkbox changed, waits for the
\* buffer-states lock while the host thread holds that lock and the lock of
\* the very flag vector the handler has just written.
C21_Witness ==
  /\ pc["gui"] = "mark_lock"
  /\ pc["host"] = "has_both"
  /\ held["buffer_states"] = "host"
  /\ held[FlagsMutexOf(local["gui"].chart_type)] = "host"
  /\ local["gui"].new_enabled # None

\* The history of the mark_all_buffers_dirty call of thread t, if it has one.
MarkHistory(t) ==
  IF local[t] # NoLocals /\ "forced" \in DOMAIN local[t]
    THEN local[t]
    ELSE [pre |-> "-", stored |-> FALSE, forced |-> FALSE]

\* C22: mark_all_buffers_dirty() raises the cancellation flag before it
\* changes any buffer state: a call that holds or waits for the buffer-states
\* lock has made its flag write, a call that has forced a Clean or Computing
\* key to Dirty has made its flag write, and a call whose flag write is
\* pending can make it whoever holds the buffer-states lock.
C22_FlagBeforeStates ==
  \A t \in MarkCallers :
    /\ pc[t] \in {"mark_lock", "mark_write", "mark_unlock"} =>
         MarkHistory(t).stored
    /\ MarkHistory(t).forced => MarkHistory(t).stored
    /\ pc[t] = "mark" =>
         /\ held["buffer_states"] # t
         /\ ENABLED StoreCancel(t)

\* Witness of C22: the call of the host thread found Clean, Dirty and
\* Computing entries and a clear flag, has written Dirty over them and still
\* holds the buffer-states lock, while the flag write of the call of the GUI
\* thread is pending.
C22_Witness ==
  /\ pc["host"] = "mark_unlock"
  /\ held["buffer_states"] = "host"
  /\ local["host"] # NoLocals
  /\ local["host"].pre = "mixed"
  /\ local["host"].forced
  /\ AllDirty
  /\ pc["gui"] = "mark"

\* C23: marking buffers dirty changes only buffer states and, for
\* mark_all_buffers_dirty, the cancellation flag: mark_buffer_dirty(key)
\* leaves the states of all other keys and the flag as they were, and both
\* operations leave every key buffer, the piano period table, both harmonic
\* tables, both vectors of enable flags and the voices as they were, so that
\* a dirtied key keeps its last published buffer.
C23_MarkingFrame ==
  [][/\ last'.op \in {"mark_all_buffers_dirty", "mark_buffer_dirty"} =>
          /\ UNCHANGED <<key_buffers, piano_periods, amplitude_data,
                         phase_data, harmonic_ampl_enabled,
                          harmonic_phase_enabled, voices, fade_duration>>
          /\ DOMAIN buffer_states' = DOMAIN buffer_states
     /\ last'.op = "mark_buffer_dirty" =>
          /\ \A k \in DOMAIN buffer_states \ {last'.key} :
               buffer_states'[k] = buffer_states[k]
          /\ computation_cancel' = computation_cancel]_vars

\* Witness of C23: mark_buffer_dirty has dirtied a Clean key, which still has
\* its published buffer, while the other model key is still Computing or
\* Clean.
C23_Witness ==
  /\ last.op = "mark_buffer_dirty"
  /\ last.key \in ModelKeys
  /\ last.pre = "Clean"
  /\ buffer_states[last.key] = "Dirty"
  /\ key_buffers[last.key] # None
  /\ \E k \in ModelKeys \ {last.key} : buffer_states[k] # "Dirty"
  /\ DOMAIN piano_periods = 0..(NUM_KEYS - 1)

\* The table of chart_type among the two tables in pair.
TableIn(pair, chart_type) == IF chart_type = "Amp" THEN pair[1] ELSE pair[2]

\* The handler recorded in last has refilled row last.key of its table with
\* the fill of its curve type, has left every other row and the other table
\* as they were, and has made that fill call and then the callback.
RowRefilled ==
  LET h == last.pre
      old == TableIn(h.before, h.chart_type)
      new == TableIn(<<amplitude_data, phase_data>>, h.chart_type)
      other == IF h.chart_type = "Amp" THEN "Phase" ELSE "Amp"
  IN  /\ new[last.key] = IF h.curve = "Sine"
                           THEN FillSine(old[last.key])
                           ELSE FillConstant(old[last.key], h.offset)
      /\ \A r \in DOMAIN old \ {last.key} : new[r] = old[r]
      /\ DOMAIN new = DOMAIN old
      /\ TableIn(<<amplitude_data, phase_data>>, other) =
           TableIn(h.before, other)
      /\ h.calls = <<FillCallOf(h.curve), "params_changed_action">>

\* C24: releasing the sine-amplitude or the sine-frequency slider while the
\* curve type of the harmonic is Constant changes no row of a harmonic table
\* and makes no fill call, yet params_changed_action is called; releasing
\* the offset slider, or selecting a curve type, refills the row with the
\* fill of the curve type then selected: fill_sin_curve for Sine,
\* fill_constant_curve with the offset for Constant.
C24_SliderFills ==
  /\ (/\ last.op \in {"sine_amp_slider", "sine_freq_slider"}
      /\ last.pre.curve = "Constant") =>
       /\ <<amplitude_data, phase_data>> = last.pre.before
       /\ last.pre.calls = <<"params_changed_action">>
  /\ last.op \in {"offset_slider", "curve_type_selected"} => RowRefilled

\* Witness of C24: the sine-amplitude slider has been released on a harmonic
\* of curve type Constant whose row of more than one bucket held a sine, and
\* the row still holds it.
C24_Witness ==
  /\ last.op = "sine_amp_slider"
  /\ last.pre.curve = "Constant"
  /\ last.pre.calls = <<"params_changed_action">>
  /\ LET row == TableIn(<<amplitude_data, phase_data>>,
                        last.pre.chart_type)[last.key]
     IN  /\ Cardinality(DOMAIN row) > 1
         /\ row = FillSine(row)

\* The voice is in exactly one of the states FadingIn, Steady and FadingOut.
InOneFadeState(v) == ~(v.fade_in_active /\ v.fade_out_active)

\* C25: every voice is at all times in exactly one of the states FadingIn,
\* Steady and FadingOut: after any sequence of Voice::new and start_fade_out
\* calls, fade_in_active and fade_out_active are never both true.
C25_OneFadeState ==
  \A key \in DOMAIN voices :
    voices[key] # None => InOneFadeState(voices[key][1])

====
